---- MODULE Spec2Model ----
(***************************************************************************)
(* A model of minesweeper.py: the Minesweeper board, the Sentence class    *)
(* and the MinesweeperAI knowledge agent.                                  *)
(*                                                                         *)
(* A cell is a pair <<i, j>> (row, column), 0-based as in the source.      *)
(* A Sentence is a record [cells |-> set of cells, count |-> integer].     *)
(* The agent is the four collections moves_made, mines, safes, knowledge   *)
(* (knowledge is a sequence: a Python list).                               *)
(***************************************************************************)
EXTENDS Integers, Sequences, FiniteSets, TLC

\* ------------------------------------------------------------- bounds
\* Boards of one and of two rows are explored, of every width up to MaxWidth,
\* with every placement of mines (any number of them).
Heights == {1, 2}
MaxWidth == 3
\* At most MaxCalls state-changing calls are made on one agent,
MaxCalls == 3
\* at most MaxMarks of them calls of mark_mine or mark_safe by a caller.
MaxMarks == 1
\* In the game on the 3 x 3 board at most MaxReveals cells are revealed.
MaxReveals == 5

VARIABLES
    height,      \* Minesweeper.height / MinesweeperAI.height
    width,       \* Minesweeper.width / MinesweeperAI.width
    board,       \* the set of cells (i, j) with Minesweeper.board[i][j] = True
    moves_made,  \* MinesweeperAI.moves_made
    mines,       \* MinesweeperAI.mines
    safes,       \* MinesweeperAI.safes
    knowledge,   \* MinesweeperAI.knowledge
    calls,       \* number of state-changing calls made so far
    marks,       \* number of them that were a caller's mark_mine or mark_safe
    op,          \* the operation that ran last
    arg,         \* the cell that operation was given (None for the queries)
    ret,         \* what the last query returned
    before,      \* the agent as it was when the last operation was called
    step         \* snapshots taken inside the last add_knowledge call

vars == <<height, width, board, moves_made, mines, safes, knowledge,
          calls, marks, op, arg, ret, before, step>>

\* Python's None, as a move-selection result.
None == <<>>

\* ------------------------------------------------------------- helpers
Range(s) == {s[i] : i \in DOMAIN s}

\* ------------------------------------------------------------- the board
\* All positions of a board of the given dimensions.
BoardCells(h, w) == {<<i, j>> : i \in 0..(h - 1), j \in 0..(w - 1)}

Cells == BoardCells(height, width)

\* Minesweeper.is_mine
IsMine(cell) == cell \in board

\* Minesweeper.nearby_mines: mines within one row and column of the cell,
\* the cell itself not counted, out-of-bounds positions ignored.
NearbyMines(cell) ==
    Cardinality({c \in {<<i, j>> : i \in (cell[1] - 1)..(cell[1] + 1),
                                   j \in (cell[2] - 1)..(cell[2] + 1)} :
                    /\ c # cell
                    /\ 0 <= c[1] /\ c[1] < height
                    /\ 0 <= c[2] /\ c[2] < width
                    /\ c \in board})

\* ------------------------------------------------------------- Sentence
Sentence(cells, count) == [cells |-> cells, count |-> count]

\* Sentence.known_mines
KnownMines(s) ==
    IF Cardinality(s.cells) = s.count /\ s.count > 0 THEN s.cells ELSE {}

\* Sentence.known_safes
KnownSafes(s) ==
    IF s.count = 0 THEN s.cells ELSE {}

\* Sentence.mark_mine that removes the cell and leaves count as it was.
SentenceMarkMine_NoDecrement(s, cell) ==
    IF cell \in s.cells
    THEN [cells |-> s.cells \ {cell}, count |-> s.count]
    ELSE s

\* Sentence.mark_mine without its membership test.
SentenceMarkMine_NoGuard(s, cell) ==
    [cells |-> s.cells \ {cell}, count |-> s.count - 1]

\* Sentence.mark_mine
SentenceMarkMine(s, cell) ==
    IF cell \in s.cells
    THEN [cells |-> s.cells \ {cell}, count |-> s.count - 1]
    ELSE s

\* Sentence.mark_safe that leaves the cell in the sentence.
SentenceMarkSafe_NoRemove(s, cell) == s

\* Sentence.mark_safe
SentenceMarkSafe(s, cell) ==
    IF cell \in s.cells
    THEN [cells |-> s.cells \ {cell}, count |-> s.count]
    ELSE s

\* ------------------------------------------------------------- the agent
\* The agent's four collections as one value.
Agent == [moves_made |-> moves_made, mines |-> mines,
          safes |-> safes, knowledge |-> knowledge]

\* MinesweeperAI.__init__
NewAgent == [moves_made |-> {}, mines |-> {}, safes |-> {}, knowledge |-> <<>>]

\* MinesweeperAI.mark_mine
AgentMarkMine(a, cell) ==
    [a EXCEPT !.mines = @ \cup {cell},
              !.knowledge = [i \in DOMAIN @ |-> SentenceMarkMine(@[i], cell)]]

\* MinesweeperAI.mark_safe that also takes the cell out of mines.
AgentMarkSafe_Unmine(a, cell) ==
    [a EXCEPT !.safes = @ \cup {cell},
              !.mines = @ \ {cell},
              !.knowledge = [i \in DOMAIN @ |-> SentenceMarkSafe(@[i], cell)]]

\* MinesweeperAI.mark_safe
AgentMarkSafe(a, cell) ==
    [a EXCEPT !.safes = @ \cup {cell},
              !.knowledge = [i \in DOMAIN @ |-> SentenceMarkSafe(@[i], cell)]]

RECURSIVE MarkMines(_, _)
\* "for mine in mines_found: if mine not in self.mines: self.mark_mine(mine)"
MarkMines(a, found) ==
    IF found = {} THEN a
    ELSE LET mine == CHOOSE c \in found : TRUE
         IN MarkMines(IF mine \notin a.mines THEN AgentMarkMine(a, mine) ELSE a,
                      found \ {mine})

RECURSIVE MarkSafes(_, _)
\* "for safe in safes_found: if safe not in self.safes: self.mark_safe(safe)"
MarkSafes(a, found) ==
    IF found = {} THEN a
    ELSE LET safe == CHOOSE c \in found : TRUE
         IN MarkSafes(IF safe \notin a.safes THEN AgentMarkSafe(a, safe) ELSE a,
                      found \ {safe})

RECURSIVE RemoveEmpty(_)
\* "[s for s in self.knowledge if len(s.cells) > 0]"
RemoveEmpty(k) ==
    IF k = <<>> THEN <<>>
    ELSE (IF Cardinality(Head(k).cells) > 0 THEN <<Head(k)>> ELSE <<>>)
         \o RemoveEmpty(Tail(k))

RECURSIVE PassFrom(_, _, _)
\* One pass of "for sentence in self.knowledge[:]", from the i-th sentence on.
\* The sentences are objects changed in place, so the i-th sentence of the
\* snapshot is the i-th sentence of the list as it is now.  The result is the
\* agent after the pass and the knowledge_changed flag.
PassFrom(a, i, changed) ==
    IF i > Len(a.knowledge) THEN [agent |-> a, changed |-> changed]
    ELSE LET mines_found == KnownMines(a.knowledge[i])
             a1 == MarkMines(a, mines_found)
             safes_found == KnownSafes(a1.knowledge[i])
             a2 == MarkSafes(a1, safes_found)
         IN PassFrom(a2, i + 1,
                     \/ changed
                     \/ mines_found \ a.mines # {}
                     \/ safes_found \ a1.safes # {})

\* One iteration of the body of "while knowledge_changed".
UpdatePass(a) ==
    LET r == PassFrom(a, 1, FALSE)
    IN [agent |-> [r.agent EXCEPT !.knowledge = RemoveEmpty(@)],
        changed |-> r.changed]

RECURSIVE UpdateLoop(_, _)
\* MinesweeperAI._update_knowledge; log is the sequence of agents, one after
\* each pass made so far.
UpdateLoop(a, log) ==
    LET r == UpdatePass(a)
    IN IF r.changed
       THEN UpdateLoop(r.agent, Append(log, r.agent))
       ELSE [agent |-> r.agent, log |-> Append(log, r.agent)]

\* _update_knowledge with the body of its while loop run once only.
UpdateKnowledge_OnePass(a) ==
    [agent |-> UpdatePass(a).agent, log |-> <<UpdatePass(a).agent>>]

\* MinesweeperAI._update_knowledge: the agent it leaves and the log of its
\* passes.
UpdateKnowledge(a) == UpdateLoop(a, <<>>)

\* _infer_new_sentences without its elif branch: only sentence1 inside
\* sentence2 is looked for.
PairCandidate_OneWay(sentence1, sentence2) ==
    IF sentence1.cells \subseteq sentence2.cells /\ sentence1.cells # sentence2.cells
    THEN IF sentence2.count - sentence1.count >= 0
         THEN <<[cells |-> sentence2.cells \ sentence1.cells,
                 count |-> sentence2.count - sentence1.count]>>
         ELSE <<>>
    ELSE <<>>

\* PairCandidate without the test "new_count >= 0".
PairCandidate_AnyCount(sentence1, sentence2) ==
    IF sentence1.cells \subseteq sentence2.cells /\ sentence1.cells # sentence2.cells
    THEN <<[cells |-> sentence2.cells \ sentence1.cells,
            count |-> sentence2.count - sentence1.count]>>
    ELSE IF sentence2.cells \subseteq sentence1.cells /\ sentence2.cells # sentence1.cells
    THEN <<[cells |-> sentence1.cells \ sentence2.cells,
            count |-> sentence1.count - sentence2.count]>>
    ELSE <<>>

\* The candidate the pair (sentence1, sentence2) yields in
\* _infer_new_sentences: a sequence of zero or one sentence.
PairCandidate(sentence1, sentence2) ==
    IF sentence1.cells \subseteq sentence2.cells /\ sentence1.cells # sentence2.cells
    THEN IF sentence2.count - sentence1.count >= 0
         THEN <<Sentence(sentence2.cells \ sentence1.cells,
                         sentence2.count - sentence1.count)>>
         ELSE <<>>
    ELSE IF sentence2.cells \subseteq sentence1.cells /\ sentence2.cells # sentence1.cells
    THEN IF sentence1.count - sentence2.count >= 0
         THEN <<Sentence(sentence1.cells \ sentence2.cells,
                         sentence1.count - sentence2.count)>>
         ELSE <<>>
    ELSE <<>>

\* Admit without the test "not in self.knowledge and not in new_sentences".
Admit_Unchecked(k, new_sentences, cand) ==
    new_sentences \o cand

\* "if new_sentence not in self.knowledge and new_sentence not in new_sentences"
Admit(k, new_sentences, cand) ==
    IF cand # <<>> /\ cand[1] \notin Range(k) /\ cand[1] \notin Range(new_sentences)
    THEN new_sentences \o cand
    ELSE new_sentences

RECURSIVE InferFrom(_, _, _, _)
\* The scan "for i in range(len(k)): for j in range(i + 1, len(k))", from
\* the pair (i, j) on (1-based here); the result is new_sentences.
InferFrom(k, i, j, new_sentences) ==
    IF i > Len(k) THEN new_sentences
    ELSE IF j > Len(k) THEN InferFrom(k, i + 1, i + 2, new_sentences)
    ELSE InferFrom(k, i, j + 1, Admit(k, new_sentences, PairCandidate(k[i], k[j])))

\* _infer_new_sentences with a second scan over the knowledge and the
\* candidates of the first: candidates take part in the inference that made
\* them.
NewSentences_Rescan(k) ==
    InferFrom(k, 1, 2, <<>>)
        \o InferFrom(k \o InferFrom(k, 1, 2, <<>>), 1, 2, <<>>)

\* MinesweeperAI._infer_new_sentences: new_sentences, the sentences it
\* appends to knowledge ("self.knowledge.extend(new_sentences)").
NewSentences(k) == InferFrom(k, 1, 2, <<>>)

\* The in-bounds neighbours of a cell, as add_knowledge collects them.
Neighbours(cell, h, w) ==
    {n \in {<<cell[1] + vi, cell[2] + vj>> : vi \in {-1, 0, 1}, vj \in {-1, 0, 1}} :
        /\ ~(n[1] = cell[1] /\ n[2] = cell[2])
        /\ 0 <= n[1] /\ n[1] < h
        /\ 0 <= n[2] /\ n[2] < w}

\* new_sentence_cells that keeps the neighbours known to be mines.
NewSentenceCells_KeepMines(a, neighbours) ==
    {n \in neighbours : n \notin a.safes}

\* new_sentence_cells that keeps the neighbours known to be safe.
NewSentenceCells_KeepSafes(a, neighbours) ==
    {n \in neighbours : n \notin a.mines}

\* new_sentence_cells of add_knowledge
NewSentenceCells(a, neighbours) ==
    {n \in neighbours : n \notin a.mines /\ n \notin a.safes}

\* new_sentence_count of add_knowledge
NewSentenceCount(a, neighbours, count) ==
    count - Cardinality({n \in neighbours : n \in a.mines})

\* Steps 1-3 of add_knowledge: record the move, mark the cell safe, build
\* the sentence of the cell and append it if it has cells.
AddSentence(a, cell, count, h, w) ==
    LET a1 == [a EXCEPT !.moves_made = @ \cup {cell}]
        a2 == AgentMarkSafe(a1, cell)
        neighbours == Neighbours(cell, h, w)
        new_sentence_cells == NewSentenceCells(a2, neighbours)
        new_sentence_count == NewSentenceCount(a2, neighbours, count)
    IN IF new_sentence_cells # {}
       THEN [a2 EXCEPT !.knowledge =
                Append(@, Sentence(new_sentence_cells, new_sentence_count))]
       ELSE a2

\* make_safe_move without its test of moves_made.
SafeMoves_IgnoreMoves(a) == a.safes

\* The cells make_safe_move may return.
SafeMoves(a) == {cell \in a.safes : cell \notin a.moves_made}

\* possible_moves without its test of mines.
PossibleMoves_IgnoreMines(a, h, w) ==
    {cell \in BoardCells(h, w) : cell \notin a.moves_made}

\* possible_moves of make_random_move
PossibleMoves(a, h, w) ==
    {cell \in BoardCells(h, w) : cell \notin a.moves_made /\ cell \notin a.mines}

\* What make_safe_move may return: any of SafeMoves (the iteration order of
\* a Python set is not fixed), None when there is none.
SafeMoveResults(a) == IF SafeMoves(a) = {} THEN {None} ELSE SafeMoves(a)

\* What make_random_move may return: random.choice(possible_moves), None
\* when the list is empty.
RandomMoveResults(a, h, w) ==
    IF PossibleMoves(a, h, w) = {} THEN {None} ELSE PossibleMoves(a, h, w)

\* ------------------------------------------------------------- the system
\* Minesweeper.__init__ places the mines; MinesweeperAI.__init__ makes the
\* agent, for a board of the same dimensions.
Init ==
    /\ height \in Heights
    /\ width \in 1..MaxWidth
    /\ board \in SUBSET BoardCells(height, width)
    /\ moves_made = NewAgent.moves_made
    /\ mines = NewAgent.mines
    /\ safes = NewAgent.safes
    /\ knowledge = NewAgent.knowledge
    /\ calls = 0
    /\ marks = 0
    /\ op = "init"
    /\ arg = None
    /\ ret = None
    /\ before = NewAgent
    /\ step = [cell |-> None, count |-> 0, added |-> NewAgent,
               updated |-> NewAgent, log |-> <<>>, inferred |-> <<>>,
               earlier |-> <<>>]

SetAgent(a) ==
    /\ moves_made' = a.moves_made
    /\ mines' = a.mines
    /\ safes' = a.safes
    /\ knowledge' = a.knowledge

\* add_knowledge(cell, nearby_mines(cell)): the agent is told the true number
\* of mines around the cell.  The steps of the call are: steps 1-3 (added),
\* _update_knowledge (upd), _infer_new_sentences (inferred, appended to
\* knowledge).
Reveal(cell) ==
    /\ \E added \in {AddSentence(Agent, cell, NearbyMines(cell), height, width)} :
       \E upd \in {UpdateKnowledge(added)} :
       \E inferred \in {NewSentences(upd.agent.knowledge)} :
          /\ SetAgent([upd.agent EXCEPT !.knowledge = @ \o inferred])
          /\ arg' = cell
          /\ step' = [cell |-> cell, count |-> NearbyMines(cell),
                      added |-> added, updated |-> upd.agent,
                      log |-> upd.log, inferred |-> inferred,
                      earlier |-> step.updated.knowledge]
    /\ calls' = calls + 1
    /\ op' = "add_knowledge"
    /\ ret' = None
    /\ before' = Agent
    /\ UNCHANGED <<height, width, board, marks>>

\* The driver reveals a cell that is not a mine and tells the agent its
\* number of neighbouring mines.
AddKnowledge ==
    /\ calls < MaxCalls
    /\ \E cell \in Cells :
        /\ ~IsMine(cell)
        /\ Reveal(cell)

\* A caller marks a cell of its choice as a mine: mark_mine(cell).
MarkMine ==
    /\ calls < MaxCalls
    /\ marks < MaxMarks
    /\ \E cell \in Cells :
        /\ SetAgent(AgentMarkMine(Agent, cell))
        /\ arg' = cell
    /\ calls' = calls + 1
    /\ marks' = marks + 1
    /\ op' = "mark_mine"
    /\ ret' = None
    /\ before' = Agent
    /\ UNCHANGED <<height, width, board, step>>

\* A caller marks a cell of its choice as safe: mark_safe(cell).
MarkSafe ==
    /\ calls < MaxCalls
    /\ marks < MaxMarks
    /\ \E cell \in Cells :
        /\ SetAgent(AgentMarkSafe(Agent, cell))
        /\ arg' = cell
    /\ calls' = calls + 1
    /\ marks' = marks + 1
    /\ op' = "mark_safe"
    /\ ret' = None
    /\ before' = Agent
    /\ UNCHANGED <<height, width, board, step>>

\* make_safe_move()
MakeSafeMove ==
    /\ ret' \in SafeMoveResults(Agent)
    /\ op' = "make_safe_move"
    /\ arg' = None
    /\ before' = Agent
    /\ UNCHANGED <<height, width, board, moves_made, mines, safes, knowledge,
                   calls, marks, step>>

\* make_random_move()
MakeRandomMove ==
    /\ ret' \in RandomMoveResults(Agent, height, width)
    /\ op' = "make_random_move"
    /\ arg' = None
    /\ before' = Agent
    /\ UNCHANGED <<height, width, board, moves_made, mines, safes, knowledge,
                   calls, marks, step>>

\* The driver's use of the agent: cells are revealed with their true counts
\* and moves are asked for.
Next ==
    \/ AddKnowledge
    \/ MakeSafeMove
    \/ MakeRandomMove

Spec == Init /\ [][Next]_vars

\* Every public operation of the agent, the mark operations with any cell.
NextOps ==
    \/ AddKnowledge
    \/ MarkMine
    \/ MarkSafe
    \/ MakeSafeMove
    \/ MakeRandomMove

SpecOps == Init /\ [][NextOps]_vars

\* One game on the 3 x 3 board with two mines, the smallest board on which
\* knowledge outgrows the board: Minesweeper(height=3, width=3, mines=2)
\* and MinesweeperAI(height=3, width=3).
InitGame ==
    /\ height = 3
    /\ width = 3
    /\ board \in {b \in SUBSET BoardCells(3, 3) : Cardinality(b) = 2}
    /\ moves_made = NewAgent.moves_made
    /\ mines = NewAgent.mines
    /\ safes = NewAgent.safes
    /\ knowledge = NewAgent.knowledge
    /\ calls = 0
    /\ marks = 0
    /\ op = "init"
    /\ arg = None
    /\ ret = None
    /\ before = NewAgent
    /\ step = [cell |-> None, count |-> 0, added |-> NewAgent,
               updated |-> NewAgent, log |-> <<>>, inferred |-> <<>>,
               earlier |-> <<>>]

\* The driver reveals a cell that is not a mine and was not revealed before:
\* one add_knowledge call per newly revealed cell.
RevealNew ==
    /\ calls < MaxReveals
    /\ \E cell \in Cells \ moves_made :
        /\ ~IsMine(cell)
        /\ Reveal(cell)

SpecGame == InitGame /\ [][RevealNew]_vars

\* ------------------------------------------------------------- properties
\* A sentence whose count lies between 0 and the number of its cells.
CountInRange(s) == 0 <= s.count /\ s.count <= Cardinality(s.cells)

\* The 8 positions around a cell that lie on the board.
Around(cell) ==
    {c \in Cells : /\ c # cell
                   /\ c[1] - cell[1] \in -1..1
                   /\ c[2] - cell[2] \in -1..1}

\* The difference sentences that pairs of sentences of k determine: for
\* A.cells a strict subset of B.cells, (B.cells - A.cells, B.count - A.count)
\* when its count is 0 or the number of its cells.
DeterminedDifferences(k) ==
    {d \in {Sentence(k[j].cells \ k[i].cells, k[j].count - k[i].count) :
                <<i, j>> \in {p \in (DOMAIN k) \X (DOMAIN k) :
                                /\ k[p[1]].cells \subseteq k[p[2]].cells
                                /\ k[p[1]].cells # k[p[2]].cells}} :
        d.count = 0 \/ d.count = Cardinality(d.cells)}

\* C1: with true counts for cells that are not mines, every cell of mines is
\* a mine of the board, no cell of safes is one, and so no cell make_safe_move
\* returns is one.
C1_Soundness ==
    /\ \A cell \in mines : IsMine(cell)
    /\ \A cell \in safes : ~IsMine(cell)
    /\ (op = "make_safe_move" /\ ret # None) => ~IsMine(ret)

C1_Witness ==
    /\ op = "make_safe_move"
    /\ ret # None
    /\ mines # {}
    /\ safes \ moves_made # {}

\* C2: after any sequence of add_knowledge calls with true counts and of
\* move queries, mines and safes are disjoint.
C2_MinesSafesDisjoint == mines \cap safes = {}

C2_Witness ==
    /\ calls >= 2
    /\ mines # {}
    /\ safes \ moves_made # {}
    /\ op = "make_random_move"

\* C3: once add_knowledge has returned, every sentence of knowledge has
\* 0 <= count <= |cells| and no cell that is in mines or in safes.
C3_SentencesInRangeAndPurged ==
    \A i \in DOMAIN knowledge :
        /\ CountInRange(knowledge[i])
        /\ knowledge[i].cells \cap (mines \cup safes) = {}

C3_Witness ==
    /\ op = "add_knowledge"
    /\ calls >= 2
    /\ knowledge # <<>>
    /\ mines # {}

\* C4: a caller's mark_mine(c) or mark_safe(c) leaves every sentence that
\* had 0 <= count <= |cells| with 0 <= count <= |cells| (Sentence.mark_mine
\* and Sentence.mark_safe are applied to each sentence of knowledge).
C4_MarksKeepCountInRange ==
    op \in {"mark_mine", "mark_safe"} =>
        \A i \in DOMAIN knowledge :
            CountInRange(before.knowledge[i]) => CountInRange(knowledge[i])

\* C5: in every state of the agent and for every cell c, mark_mine(c) twice
\* leaves the agent as mark_mine(c) once does, and so for mark_safe(c).
C5_MarksIdempotent ==
    \A c \in Cells :
        /\ AgentMarkMine(AgentMarkMine(Agent, c), c) = AgentMarkMine(Agent, c)
        /\ AgentMarkSafe(AgentMarkSafe(Agent, c), c) = AgentMarkSafe(Agent, c)

C5_Witness ==
    /\ op = "mark_mine"
    /\ knowledge # before.knowledge
    /\ \E i \in DOMAIN knowledge : knowledge[i].cells # {}

\* C6: every determined difference of two sentences that are in knowledge
\* when the pairwise inference of an add_knowledge call starts is in
\* knowledge when the call returns, and the propagation of the next
\* add_knowledge call marks all its cells safe (count 0) or mines
\* (count = |cells|).
C6_DeterminedDifferenceResolved ==
    /\ \A d \in DeterminedDifferences(step.updated.knowledge) :
           d \in Range(knowledge)
    /\ \A d \in DeterminedDifferences(step.earlier) :
           /\ d.count = 0 => d.cells \subseteq step.updated.safes
           /\ d.count = Cardinality(d.cells) => d.cells \subseteq step.updated.mines

C6_Witness ==
    /\ op = "add_knowledge"
    /\ \E d \in DeterminedDifferences(step.earlier) :
           /\ d.count = Cardinality(d.cells)
           /\ d.cells \subseteq mines
           /\ d.cells \cap before.mines = {}

\* C7: make_safe_move returns a cell of safes that is not in moves_made,
\* None exactly when there is no such cell, and changes nothing of the agent.
C7_SafeMoveIsPureQuery ==
    op = "make_safe_move" =>
        /\ ret # None => ret \in safes /\ ret \notin moves_made
        /\ ret = None <=> safes \subseteq moves_made
        /\ Agent = before

C7_Witness ==
    /\ op = "make_safe_move"
    /\ ret # None
    /\ moves_made # {}
    /\ knowledge # <<>>

\* C8: make_random_move returns only cells of the board that are in neither
\* moves_made nor mines, each of them is a possible result, it returns None
\* exactly when there is no such cell, it always returns, and it changes
\* nothing of the agent.
C8_RandomMove ==
    /\ ENABLED MakeRandomMove
    /\ \A c \in Cells \ (moves_made \cup mines) :
           ENABLED (MakeRandomMove /\ ret' = c)
    /\ op = "make_random_move" =>
           /\ ret # None => ret \in Cells /\ ret \notin moves_made /\ ret \notin mines
           /\ ret = None <=> Cells \subseteq moves_made \cup mines
           /\ Agent = before

C8_Witness ==
    /\ op = "make_random_move"
    /\ ret = None
    /\ mines # {}
    /\ moves_made # {}

\* C9: no operation removes a cell from moves_made, mines or safes.
C9_SetsOnlyGrow ==
    [][/\ moves_made \subseteq moves_made'
       /\ mines \subseteq mines'
       /\ safes \subseteq safes']_vars

C9_Witness ==
    /\ op = "mark_safe"
    /\ before.mines # {}
    /\ before.moves_made # {}
    /\ safes # before.safes

\* C10: the sentence add_knowledge(cell, count) builds has the neighbours of
\* cell on the board that are in neither mines nor safes as its cells and
\* count less the number of neighbours in mines as its count, and is appended
\* exactly when it has cells.  On a 1 x 3 board, add_knowledge((0,1), 1) on a
\* fresh agent leaves {(0,0),(0,2)} = 1 and make_safe_move then returns None.
C10_BuiltSentence ==
    /\ op = "add_knowledge" =>
        LET cells == Around(step.cell) \ (before.mines \cup before.safes)
            count == step.count - Cardinality(Around(step.cell) \cap before.mines)
            k == step.added.knowledge
        IN IF cells # {}
           THEN /\ Len(k) = Len(before.knowledge) + 1
                /\ k[Len(k)] = Sentence(cells, count)
           ELSE Len(k) = Len(before.knowledge)
    /\ (height = 1 /\ width = 3 /\ calls = 1 /\ step.cell = <<0, 1>> /\ step.count = 1) =>
        /\ knowledge = <<Sentence({<<0, 0>>, <<0, 2>>}, 1)>>
        /\ op = "make_safe_move" => ret = None

C10_Witness ==
    /\ height = 1 /\ width = 3 /\ calls = 1
    /\ step.cell = <<0, 1>> /\ step.count = 1
    /\ op = "make_safe_move"
    /\ ret = None

\* The last operation was add_knowledge(cell, 0) for a cell all of whose
\* neighbours on the board were already in safes.
ZeroCallAmongSafes ==
    /\ op = "add_knowledge"
    /\ step.count = 0
    /\ Around(step.cell) \subseteq before.safes

\* C11: add_knowledge(cell, 0) for a cell whose neighbours are all in safes
\* adds no sentence for the cell, and knowledge has no more sentences after
\* the call than before it.
C11_NoGrowthAmongSafes ==
    ZeroCallAmongSafes =>
        /\ Len(step.added.knowledge) = Len(before.knowledge)
        /\ Len(knowledge) <= Len(before.knowledge)

\* C11, its first half: no sentence is added for the cell.
C11_NoSentenceForCell ==
    ZeroCallAmongSafes =>
        /\ Len(step.added.knowledge) = Len(before.knowledge)
        /\ Len(step.updated.knowledge) <= Len(before.knowledge)

C11_Witness ==
    /\ ZeroCallAmongSafes
    /\ Around(step.cell) # {}
    /\ before.knowledge # <<>>


\* The pairs (i, j) of distinct sentences of k with the cells of k[i] a strict
\* subset of the cells of k[j].
StrictSubsetPairs(k) ==
    {p \in (DOMAIN k) \X (DOMAIN k) :
        /\ p[1] # p[2]
        /\ k[p[1]].cells \subseteq k[p[2]].cells
        /\ k[p[1]].cells # k[p[2]].cells}

\* The difference of the pair p of k: cells B - A, count B.count - A.count.
Difference(k, p) ==
    Sentence(k[p[2]].cells \ k[p[1]].cells, k[p[2]].count - k[p[1]].count)

\* C12: when _infer_new_sentences ends, knowledge holds the difference of
\* every strict-subset pair of the sentences it started with whose count is
\* not negative; it added no sentence with a negative count, and every
\* sentence it added is the difference of such a pair.
C12_InferenceResult ==
    LET k == step.updated.knowledge
    IN op = "add_knowledge" =>
        /\ knowledge = k \o step.inferred
        /\ \A p \in StrictSubsetPairs(k) :
               Difference(k, p).count >= 0 => Difference(k, p) \in Range(knowledge)
        /\ \A n \in DOMAIN step.inferred :
               /\ step.inferred[n].count >= 0
               /\ \E p \in StrictSubsetPairs(k) : step.inferred[n] = Difference(k, p)

C12_Witness ==
    /\ op = "add_knowledge"
    /\ StrictSubsetPairs(step.updated.knowledge) # {}
    /\ \E p \in StrictSubsetPairs(step.updated.knowledge) :
           Difference(step.updated.knowledge, p).count < 0


\* C13: whenever add_knowledge has returned, no two sentences of knowledge
\* are equal (same cells and same count).
C13_NoDuplicates ==
    op = "add_knowledge" =>
        \A i, j \in DOMAIN knowledge : i # j => knowledge[i] # knowledge[j]


\* C14: after any sequence of add_knowledge calls, one per newly revealed
\* non-mine cell with its true count, knowledge holds at most height * width
\* sentences.
C14_KnowledgeBounded ==
    Len(knowledge) <= height * width


\* The agent a pass of the propagation loop of the last add_knowledge call
\* started from: the agent before the loop for the first pass, the agent the
\* previous pass left for the others.
PassStart(n) == IF n = 1 THEN step.added ELSE step.log[n - 1]

\* The cells pass n of the last propagation loop added to mines or to safes.
PassNewCells(n) ==
    (step.log[n].mines \ PassStart(n).mines)
        \cup (step.log[n].safes \ PassStart(n).safes)

\* C15: _update_knowledge terminates; every pass but the last adds to mines
\* or to safes a cell that was not there, the last pass marks nothing (mines
\* and safes stay as they were, and so does every sentence: the pass only
\* drops the sentences whose cells are empty), and the passes of one run
\* number at most the cells not yet marked, plus one.
C15_PropagationTerminates ==
    op = "add_knowledge" =>
        /\ Len(step.log) >= 1
        /\ step.updated = step.log[Len(step.log)]
        /\ \A n \in 1..(Len(step.log) - 1) : PassNewCells(n) # {}
        /\ step.log[Len(step.log)] =
               [PassStart(Len(step.log)) EXCEPT !.knowledge = RemoveEmpty(@)]
        /\ Len(step.log) <=
               Cardinality(Cells \ (step.added.mines \cup step.added.safes)) + 1

C15_Witness ==
    /\ op = "add_knowledge"
    /\ Len(step.log) >= 3


\* C15 as stated: as above, but the last pass changes nothing at all, the
\* list of sentences included.
C15_LastPassChangesNothing ==
    op = "add_knowledge" =>
        /\ \A n \in 1..(Len(step.log) - 1) : PassNewCells(n) # {}
        /\ step.log[Len(step.log)] = PassStart(Len(step.log))
        /\ Len(step.log) <=
               Cardinality(Cells \ (step.added.mines \cup step.added.safes)) + 1


\* C16: when _update_knowledge returns inside add_knowledge, every sentence
\* of knowledge has cells and 0 < count < |cells|: none has known mines or
\* known safes left, and none is empty.
C16_PropagationFixedPoint ==
    op = "add_knowledge" =>
        \A i \in DOMAIN step.updated.knowledge :
            LET s == step.updated.knowledge[i]
            IN /\ s.cells # {}
               /\ 0 < s.count
               /\ s.count < Cardinality(s.cells)
               /\ KnownMines(s) = {}
               /\ KnownSafes(s) = {}

C16_Witness ==
    /\ op = "add_knowledge"
    /\ Len(step.log) >= 2
    /\ Len(step.updated.knowledge) >= 2
    /\ Len(step.updated.knowledge) < Len(step.added.knowledge)


\* The differences with a count that is not negative of the strict-subset
\* pairs of k that are not sentences of k.
NewDifferences(k) ==
    {d \in {Difference(k, p) : p \in StrictSubsetPairs(k)} :
        d.count >= 0 /\ d \notin Range(k)}

\* C17: the inference step only appends.  mines, safes and moves_made are
\* as _update_knowledge left them, the sentences it started with are all
\* there, unchanged and in the same order, followed by the candidates; and
\* every candidate comes from a pair of the sentences it started with, none
\* from a pair with a candidate of the same scan.
C17_InferenceOnlyAppends ==
    op = "add_knowledge" =>
        /\ mines = step.updated.mines
        /\ safes = step.updated.safes
        /\ moves_made = step.updated.moves_made
        /\ Len(knowledge) >= Len(step.updated.knowledge)
        /\ SubSeq(knowledge, 1, Len(step.updated.knowledge)) = step.updated.knowledge
        /\ Range(SubSeq(knowledge, Len(step.updated.knowledge) + 1, Len(knowledge)))
               = NewDifferences(step.updated.knowledge)

\* A call whose inference step appended candidates that, paired with other
\* sentences, determine differences the same scan did not append.
C17_Witness ==
    /\ op = "add_knowledge"
    /\ step.inferred # <<>>
    /\ NewDifferences(knowledge) # {}


\* C18: no sentence one run of _infer_new_sentences appends equals a
\* sentence knowledge held when the run started, and no two of the sentences
\* it appends are equal.
C18_AppendedAreNew ==
    op = "add_knowledge" =>
        /\ \A n \in DOMAIN step.inferred :
               step.inferred[n] \notin Range(step.updated.knowledge)
        /\ \A m, n \in DOMAIN step.inferred :
               m # n => step.inferred[m] # step.inferred[n]

\* A call whose scan appended a candidate, met a candidate that knowledge
\* already held, and met the same candidate from two pairs.
C18_Witness ==
    LET k == step.updated.knowledge
    IN /\ op = "add_knowledge"
       /\ step.inferred # <<>>
       /\ \E p \in StrictSubsetPairs(k) :
              Difference(k, p).count >= 0 /\ Difference(k, p) \in Range(k)
       /\ \E p, q \in StrictSubsetPairs(k) :
              /\ p # q
              /\ Difference(k, p) = Difference(k, q)
              /\ Difference(k, p) \in Range(step.inferred)


\* C19: whenever add_knowledge has returned (non-mine cells, true counts),
\* the count of every sentence of knowledge is the number of mines of the
\* board among its cells.
C19_SentencesTrue ==
    \A i \in DOMAIN knowledge :
        knowledge[i].count = Cardinality(knowledge[i].cells \cap board)

\* A call after which knowledge holds a sentence built for a revealed cell and
\* simplified by marks, and a sentence derived by subset resolution.
C19_Witness ==
    /\ op = "add_knowledge"
    /\ mines # {}
    /\ step.inferred # <<>>
    /\ Len(step.updated.knowledge) >= 1
    /\ \E i \in DOMAIN step.updated.knowledge :
           step.updated.knowledge[i] \notin Range(step.added.knowledge)

====
